---- MODULE Spec2Model ----
(***************************************************************************)
(* Model of Examples/mutop/mutop.py (muwerk "top"): a foreground thread    *)
(* that connects, subscribes, starts sampling and idles until interrupted, *)
(* and the MQTT client's delivery thread that runs on_connect/on_message.  *)
(***************************************************************************)
EXTENDS Integers, Sequences, FiniteSets, TLC

VARIABLES
    mainPc,            \* position of the foreground thread (__main__)
    exitStatus,        \* "running", or how the process ended
    threadAlive,       \* the client's delivery thread (loop_start) is running
    connection_state,  \* MuwerkTop.connection_state
    last_lines,        \* MuwerkTop.last_lines
    calls,             \* subscribe/publish calls issued on the client, in order
    acked,             \* number of publishes the delivery thread has written out
    lastMsg,           \* the message the last on_message call was given
    out,               \* lines printed by the last on_message call
    cbErr,             \* exception that ended the delivery thread ("none" if none)
    blanks,            \* blank lines printed by the interrupt handler (-1: none yet)
    arg,               \* input of the pure function under check
    res                \* its result

vars == <<mainPc, exitStatus, threadAlive, connection_state, last_lines, calls,
          acked, lastMsg, out, cbErr, blanks, arg, res>>

sessionVars == <<mainPc, exitStatus, threadAlive, connection_state, last_lines,
                 calls, acked, lastMsg, out, cbErr, blanks>>

\* ---------------------------------------------------------------- bounds
MaxTasks == 2      \* longest 'tdt' list delivered
MaxCpuAll == 45    \* largest cpu_all the bar computation is applied to
MaxMant == 12      \* schedule periods are m * 10^e + d, m <= MaxMant
MaxExp == 7        \* ... e <= MaxExp
MaxCnt == 2        \* largest invocation count a single row is computed for
MaxLate == 2       \* largest late time a single row is computed for

\* ---------------------------------------------------------------- helpers
Min(a, b) == IF a < b THEN a ELSE b

RECURSIVE Pow10(_)
Pow10(e) == IF e = 0 THEN 1 ELSE 10 * Pow10(e - 1)

\* str(int): the decimal digits of n >= 0, most significant first
RECURSIVE Digits(_)
Digits(n) == IF n < 10 THEN <<n>> ELSE Append(Digits(n \div 10), n % 10)

\* s[-k:] of a Python string
LastK(s, k) == SubSeq(s, Len(s) - Min(k, Len(s)) + 1, Len(s))

\* s[:-k] of a Python string
DropLastK(s, k) == SubSeq(s, 1, Len(s) - Min(k, Len(s)))

\* ---------------------------------------------------------------- schedule string
\* Lines 67-74: the period printed as an integer, then rewritten by its suffix.
\* The unit "us" stands for the two characters "µs".
SchedString(n) ==
    LET sched == Digits(n) IN
    IF LastK(sched, 6) = <<0, 0, 0, 0, 0, 0>>
    THEN [digits |-> DropLastK(sched, 6), unit |-> " s"]
    ELSE IF LastK(sched, 3) = <<0, 0, 0>>
         THEN [digits |-> DropLastK(sched, 3), unit |-> "ms"]
         ELSE [digits |-> sched, unit |-> "us"]

\* ---------------------------------------------------------------- bar
\* Line 42: the glyph ramp, by index; glyph 0 is the full block U+2588,
\* glyphs 1..7 are the partial blocks 7/8 .. 1/8.
BarsLen == 8
FullBlock == 0
bars == [i \in 0..(BarsLen - 1) |-> i]

\* per = cpu*100/cpu_all, bl0 = int(per/10), r = int((per-bl0*10)*9/10) are
\* computed in IEEE-754 doubles.  The double results equal the exact ones
\* except where (per-bl0*10)*9/10 is exactly an integer k >= 1: there the
\* rounding of per decides between k and k-1, and it depends only on the value
\* of per = 10*bl0 + 10*k/9.  These are the <<bl0, k>> where it gives k-1.
DoubleRoundsBelow ==
    {<<1, 1>>, <<1, 2>>, <<2, 1>>, <<2, 2>>, <<2, 3>>, <<2, 4>>, <<3, 1>>,
     <<3, 2>>, <<3, 4>>, <<3, 6>>, <<3, 8>>, <<4, 2>>, <<4, 4>>, <<4, 6>>,
     <<4, 8>>, <<5, 2>>, <<5, 4>>, <<5, 6>>, <<5, 8>>, <<6, 2>>, <<6, 4>>,
     <<6, 7>>, <<6, 8>>, <<7, 3>>, <<7, 4>>, <<7, 7>>, <<7, 8>>, <<8, 3>>,
     <<8, 4>>, <<8, 7>>, <<8, 8>>, <<9, 3>>, <<9, 4>>, <<9, 7>>, <<9, 8>>}

\* Line 84 with round() in place of int()
WholeBlocks_rounded(cpu, cpu_all) == (cpu * 10 + cpu_all \div 2) \div cpu_all

\* Line 84: bl0 = int(per/10), for cpu_all > 0 and cpu >= 0
WholeBlocks(cpu, cpu_all) == (cpu * 10) \div cpu_all

\* Line 85 with the remainder scaled by 10/10 instead of 9/10
SubIndex_tenths(cpu, cpu_all) ==
    (cpu * 100 - WholeBlocks(cpu, cpu_all) * 10 * cpu_all) \div cpu_all

\* Line 85: r = int((per-bl0*10)*9/10)
SubIndex(cpu, cpu_all) ==
    LET bl0 == WholeBlocks(cpu, cpu_all)
        num == (cpu * 100 - bl0 * 10 * cpu_all) * 9
        den == 10 * cpu_all
        k   == num \div den
    IN  IF num % den = 0 /\ k >= 1 /\ <<bl0, k>> \in DoubleRoundsBelow
        THEN k - 1 ELSE k

\* Line 90: the range test on r that guards the exit with status -2
OutOfRange(r) == r < 0 \/ r > 9

\* Lines 86, 94-95: bls = full blocks, then bars[8-r] when r > 0
\* bars[i] with Python's indexing: a negative index counts from the end
PyIndex(i) == IF i < 0 THEN bars[BarsLen + i] ELSE bars[i]

BarGlyphs(bl0, r) ==
    [i \in 1..bl0 |-> FullBlock] \o (IF r > 0 THEN <<PyIndex(8 - r)>> ELSE <<>>)

Bar(cpu, cpu_all) ==
    BarGlyphs(WholeBlocks(cpu, cpu_all), SubIndex(cpu, cpu_all))

\* ---------------------------------------------------------------- inbound messages
\* A task record of 'tdt' is the list [name, id, schedule, cnt, cpu, late];
\* Python's tsk[k] is tsk[k+1] here.  Names are sequences of characters.
TaskA == << <<"A">>, 1, 1000, 10, 100, 5 >>
TaskB == << <<"B">>, 2, 2000000, 0, 300, 0 >>
TaskC == << <<"l","o","n","g","t","a","s","k","n","a","m","e","s">>, 3, 0, 10, 0, 0 >>
Task5 == << <<"F">>, 5, 5000, 1, 100 >>
Task7 == << <<"G">>, 6, 1000500, 3, 9, 1, 7 >>

TaskRecords == {TaskA, TaskB, TaskC, Task5, Task7}

\* The lists of at most n distinct elements of S
RECURSIVE DistinctSeqs(_, _)
DistinctSeqs(S, n) ==
    IF n = 0 THEN {<<>>}
    ELSE LET shorter == DistinctSeqs(S, n - 1)
         IN  shorter \cup
             UNION {{Append(q, x) : x \in S \ {q[i] : i \in 1..Len(q)}} :
                       q \in {t \in shorter : Len(t) = n - 1}}

\* A device reports each of its tasks once
TaskLists == DistinctSeqs(TaskRecords, MaxTasks)

Snapshot(hasTsks, tsks, tdt, apt) ==
    [hasTsks |-> hasTsks, tsks |-> tsks, tdt |-> tdt,
     upt |-> 3661, mem |-> 1024, dt |-> 1, syt |-> 2, apt |-> apt]

\* Snapshots: the declared count right, one short, one long or missing, and
\* the app time positive or 0.
Snapshots ==
    {Snapshot(TRUE, Len(tdt), tdt, apt) : tdt \in TaskLists, apt \in {0, 400}}
    \cup {Snapshot(TRUE, Len(tdt) + 1, tdt, 400) : tdt \in TaskLists}
    \cup {Snapshot(TRUE, Len(tdt) - 1, tdt, 400) : tdt \in TaskLists \ {<<>>}}
    \cup {Snapshot(FALSE, 0, tdt, 400) : tdt \in TaskLists}

\* A payload is JSON text of a snapshot, bytes that are not UTF-8, or text
\* that is not JSON.
Messages ==
    {[enc |-> "json", stat |-> s] : s \in Snapshots}
    \cup {[enc |-> "badutf8"], [enc |-> "badjson"]}

NoMsg == [enc |-> "none"]

\* ---------------------------------------------------------------- on_message
RuleLine == [k |-> "rule"]
TitleLine == [k |-> "titles"]
Header == <<RuleLine, TitleLine, RuleLine>>

\* Line 37-41: the text of the exception, printed after "Failed to decode message"
DecodeFailLine(msg) ==
    [k |-> "decodefail",
     exc |-> IF msg.enc = "badutf8" THEN "'utf-8' codec can't decode byte"
             ELSE "Expecting property name enclosed in double quotes"]

\* Line 55: 'tsks' not in stat or (len(tdt) > 0 and len(tdt[0])) != 6.
\* Python's `and` yields its first operand when that is false, and False
\* compares as the integer 0.
PyAndLen(stat) == IF Len(stat.tdt) > 0 THEN Len(stat.tdt[1]) ELSE 0

Incompatible(stat) == (~stat.hasTsks) \/ PyAndLen(stat) # 6

\* Lines 59-62: the first loop fails with IndexError when tdt[i] or tsk[4] is missing
SumFails(stat) ==
    \E i \in 1..stat.tsks : i > Len(stat.tdt) \/ Len(stat.tdt[i]) < 5

RECURSIVE SumCpu(_, _)
SumCpu(tdt, n) == IF n <= 0 THEN 0 ELSE SumCpu(tdt, n - 1) + tdt[n][5]

\* Lines 63-101 for one task: the exception the iteration ends with, or "none"
RowErr(tsk, cpu_all) ==
    IF Len(tsk) < 6 THEN "IndexError"
    ELSE IF cpu_all > 0 /\ OutOfRange(SubIndex(tsk[5], cpu_all))
         THEN "SystemExit(-2)"
    ELSE IF tsk[4] > 0 /\ cpu_all <= 0 THEN "ValueError"
    ELSE "none"

\* The row with the full form chosen for counts above 1 only
Row_morethanone(tsk, cpu_all) ==
    IF tsk[4] > 1
    THEN [k |-> "row", full |-> TRUE, tid |-> tsk[2],
          name |-> SubSeq(tsk[1], 1, Min(12, Len(tsk[1]))),
          sched |-> SchedString(tsk[3]), cnt |-> tsk[4],
          per |-> <<tsk[5] * 100, cpu_all>>, bar |-> Bar(tsk[5], cpu_all),
          cpu_call |-> <<tsk[5], tsk[4]>>, late_call |-> <<tsk[6], tsk[4]>>]
    ELSE [k |-> "row", full |-> FALSE, tid |-> tsk[2],
          name |-> SubSeq(tsk[1], 1, Min(12, Len(tsk[1]))),
          sched |-> SchedString(tsk[3]), cnt |-> tsk[4]]

\* Lines 76-81, 97-101: the row printed for one task; cpu_call and late_call
\* are the quotients <<dividend, divisor>>
Row(tsk, cpu_all) ==
    IF tsk[4] > 0
    THEN [k |-> "row", full |-> TRUE, tid |-> tsk[2],
          name |-> SubSeq(tsk[1], 1, Min(12, Len(tsk[1]))),
          sched |-> SchedString(tsk[3]), cnt |-> tsk[4],
          per |-> <<tsk[5] * 100, cpu_all>>, bar |-> Bar(tsk[5], cpu_all),
          cpu_call |-> <<tsk[5], tsk[4]>>, late_call |-> <<tsk[6], tsk[4]>>]
    ELSE [k |-> "row", full |-> FALSE, tid |-> tsk[2],
          name |-> SubSeq(tsk[1], 1, Min(12, Len(tsk[1]))),
          sched |-> SchedString(tsk[3]), cnt |-> tsk[4]]

\* Lines 104-110
MemLine(stat) ==
    [k |-> "mem", mem |-> stat.mem, h |-> stat.upt \div 3600,
     m |-> (stat.upt % 3600) \div 60, s |-> (stat.upt % 3600) % 60]

\* Lines 111-112
CpuLine(stat, cpu_all) ==
    [k |-> "cpu", pct |-> <<cpu_all * 100, stat.apt>>,
     dt |-> stat.dt, syt |-> stat.syt, apt |-> stat.apt]

\* The outcome of one on_message call: the lines it prints, the exception it
\* ends with, and the value it stores in last_lines (-1: none stored).
Outcome(lines, err, up) == [lines |-> lines, err |-> err, up |-> up]

\* The line count with one line too few counted for the footer
UpCount_lines(n) == 3 + n + 4

\* Lines 44, 52, 102, 114: 'up' after a frame with n task rows
UpCount(n) == 3 + n + 5

HandleMessage(msg) ==
    IF msg.enc # "json" THEN Outcome(<<DecodeFailLine(msg)>>, "none", -1)
    ELSE
    LET stat == msg.stat IN
    IF Incompatible(stat)
    THEN Outcome(Header \o <<[k |-> "incompat"], [k |-> "raw", payload |-> msg]>>,
                 "SystemExit(-1)", -1)
    ELSE IF SumFails(stat) THEN Outcome(Header, "IndexError", -1)
    ELSE
    LET cpu_all == SumCpu(stat.tdt, stat.tsks)
        failing == {i \in 1..stat.tsks : RowErr(stat.tdt[i], cpu_all) # "none"}
        first   == IF failing = {} THEN stat.tsks + 1
                   ELSE CHOOSE i \in failing : \A j \in failing : i <= j
        rows    == [i \in 1..(first - 1) |-> Row(stat.tdt[i], cpu_all)]
        up      == UpCount(Len(rows))
    IN
    IF failing # {}
    THEN LET err == RowErr(stat.tdt[first], cpu_all) IN
         Outcome(Header \o rows
                   \o (IF err = "SystemExit(-2)" THEN <<[k |-> "didntwork"]>> ELSE <<>>),
                 err, -1)
    ELSE IF stat.apt = 0
    THEN Outcome(Header \o rows \o <<RuleLine, MemLine(stat)>>, "ZeroDivisionError", -1)
    ELSE Outcome(Header \o rows
                   \o <<RuleLine, MemLine(stat), CpuLine(stat, cpu_all), RuleLine,
                        [k |-> "cursorup", n |-> up]>>,
                 "none", up)

\* Line 116: the escape sequence moves the cursor n rows up; no other printed
\* line moves it up
RowsUp(line) == IF line.k = "cursorup" THEN line.n ELSE 0

RECURSIVE CursorUps(_)
CursorUps(lines) ==
    IF lines = <<>> THEN 0 ELSE RowsUp(Head(lines)) + CursorUps(Tail(lines))

\* Lines 40-116: every print ends its line and so moves the cursor one row
\* down; the net number of rows the printed lines move the cursor down
Displacement(lines) == Len(lines) - CursorUps(lines)

\* ---------------------------------------------------------------- the session
\* Lines 132, 136, 165-167: the topics (default domain "omu") and payloads
ControlTopic == "muhost/$SYS/stat/get"
StatTopic == "omu/muhost/$SYS/stat"
SampleTime == "2000"

SubscribeCall == [op |-> "subscribe", topic |-> StatTopic]
StartCall == [op |-> "publish", topic |-> ControlTopic, payload |-> SampleTime]
StopCall == [op |-> "publish", topic |-> ControlTopic, payload |-> ""]

Publishes == {i \in 1..Len(calls) : calls[i].op = "publish"}
Subscribed == \E i \in 1..Len(calls) : calls[i] = SubscribeCall
Running == exitStatus = "running"

InitSession ==
    /\ mainPc = "construct"
    /\ exitStatus = "running"
    /\ threadAlive = FALSE
    /\ connection_state = FALSE
    /\ last_lines = 0
    /\ calls = <<>>
    /\ acked = 0
    /\ lastMsg = NoMsg
    /\ out = <<>>
    /\ cbErr = "none"
    /\ blanks = -1

NoFn == [f |-> "none"]

Init == InitSession /\ arg = NoFn /\ res = NoFn

\* Lines 9-28: the constructor connects and starts the delivery thread
Construct ==
    /\ Running /\ mainPc = "construct"
    /\ threadAlive' = TRUE
    /\ mainPc' = "wait_connected"
    /\ UNCHANGED <<exitStatus, connection_state, last_lines, calls, acked,
                   lastMsg, out, cbErr, blanks, arg, res>>

\* Lines 23-27: connect raises, the constructor prints and calls exit(-1)
ConstructFails ==
    /\ Running /\ mainPc = "construct"
    /\ mainPc' = "exited"
    /\ exitStatus' = "exit255"
    /\ UNCHANGED <<threadAlive, connection_state, last_lines, calls, acked,
                   lastMsg, out, cbErr, blanks, arg, res>>

\* Lines 30-32, run by the delivery thread on the connect acknowledgment
on_connect ==
    /\ Running /\ threadAlive /\ ~connection_state
    /\ connection_state' = TRUE
    /\ UNCHANGED <<mainPc, exitStatus, threadAlive, last_lines, calls, acked,
                   lastMsg, out, cbErr, blanks, arg, res>>

\* Lines 162-163 without the test of connection_state
WaitConnected_unchecked ==
    /\ Running /\ mainPc = "wait_connected"
    /\ mainPc' = "subscribe"
    /\ UNCHANGED <<exitStatus, threadAlive, connection_state, last_lines, calls,
                   acked, lastMsg, out, cbErr, blanks, arg, res>>

\* Lines 162-163: leave the polling loop once connection_state is not False
WaitConnected ==
    /\ Running /\ mainPc = "wait_connected"
    /\ connection_state # FALSE
    /\ mainPc' = "subscribe"
    /\ UNCHANGED <<exitStatus, threadAlive, connection_state, last_lines, calls,
                   acked, lastMsg, out, cbErr, blanks, arg, res>>

\* Lines 164-169
Subscribe ==
    /\ Running /\ mainPc = "subscribe"
    /\ calls' = Append(calls, SubscribeCall)
    /\ mainPc' = "start"
    /\ UNCHANGED <<exitStatus, threadAlive, connection_state, last_lines, acked,
                   lastMsg, out, cbErr, blanks, arg, res>>

\* Lines 130-132: start() publishes the sample time
StartPublish ==
    /\ Running /\ mainPc = "start"
    /\ calls' = Append(calls, StartCall)
    /\ mainPc' = "start_wait"
    /\ UNCHANGED <<exitStatus, threadAlive, connection_state, last_lines, acked,
                   lastMsg, out, cbErr, blanks, arg, res>>

\* The delivery thread writes a queued publish to the socket, which is what
\* wait_for_publish waits for at qos 0
WritePublish ==
    /\ Running /\ threadAlive
    /\ acked < Cardinality(Publishes)
    /\ acked' = acked + 1
    /\ UNCHANGED <<mainPc, exitStatus, threadAlive, connection_state, last_lines,
                   calls, lastMsg, out, cbErr, blanks, arg, res>>

\* Lines 133, 171-173: wait_for_publish returns, the idle loop is entered
StartAcked ==
    /\ Running /\ mainPc = "start_wait"
    /\ acked >= 1
    /\ mainPc' = "idle"
    /\ UNCHANGED <<exitStatus, threadAlive, connection_state, last_lines, calls,
                   acked, lastMsg, out, cbErr, blanks, arg, res>>

\* Lines 35-116, run by the delivery thread for a message of the subscribed
\* topic.  An exception it raises (exit() raises SystemExit) ends the delivery
\* thread, not the process.
on_message(msg) ==
    /\ Running /\ threadAlive /\ Subscribed
    /\ LET o == HandleMessage(msg) IN
        /\ lastMsg' = msg
        /\ out' = o.lines
        /\ last_lines' = IF o.up >= 0 THEN o.up ELSE last_lines
        /\ cbErr' = o.err
        /\ threadAlive' = (o.err = "none")
    /\ UNCHANGED <<mainPc, exitStatus, connection_state, calls, acked, blanks,
                   arg, res>>

\* Line 174: KeyboardInterrupt raised in the idle loop, inside the try
InterruptInLoop ==
    /\ Running /\ mainPc = "idle"
    /\ mainPc' = "except"
    /\ UNCHANGED <<exitStatus, threadAlive, connection_state, last_lines, calls,
                   acked, lastMsg, out, cbErr, blanks, arg, res>>

\* KeyboardInterrupt raised anywhere else in __main__ is not caught
InterruptElsewhere ==
    /\ Running /\ mainPc \notin {"idle", "exited"}
    /\ mainPc' = "exited"
    /\ exitStatus' = "sigint"
    /\ UNCHANGED <<threadAlive, connection_state, last_lines, calls, acked,
                   lastMsg, out, cbErr, blanks, arg, res>>

\* The handler clearing the line count once it has used it
AdvanceCursor_reset ==
    /\ Running /\ mainPc = "except"
    /\ blanks' = last_lines
    /\ last_lines' = 0
    /\ mainPc' = "stop"
    /\ UNCHANGED <<exitStatus, threadAlive, connection_state, calls,
                   acked, lastMsg, out, cbErr, arg, res>>

\* Lines 175-177: one blank line per line of the last frame, then "Unsubscribing..."
AdvanceCursor ==
    /\ Running /\ mainPc = "except"
    /\ blanks' = last_lines
    /\ mainPc' = "stop"
    /\ UNCHANGED <<exitStatus, threadAlive, connection_state, last_lines, calls,
                   acked, lastMsg, out, cbErr, arg, res>>

\* Lines 135-136: stop() publishes the empty payload
StopPublish ==
    /\ Running /\ mainPc = "stop"
    /\ calls' = Append(calls, StopCall)
    /\ mainPc' = "stop_wait"
    /\ UNCHANGED <<exitStatus, threadAlive, connection_state, last_lines, acked,
                   lastMsg, out, cbErr, blanks, arg, res>>

\* Lines 137, 179: wait_for_publish returns, " Done." is printed, the script ends
StopAcked ==
    /\ Running /\ mainPc = "stop_wait"
    /\ acked >= 2
    /\ mainPc' = "exited"
    /\ exitStatus' = "exit0"
    /\ UNCHANGED <<threadAlive, connection_state, last_lines, calls, acked,
                   lastMsg, out, cbErr, blanks, arg, res>>

Next ==
    \/ Construct
    \/ ConstructFails
    \/ on_connect
    \/ WaitConnected
    \/ Subscribe
    \/ StartPublish
    \/ WritePublish
    \/ StartAcked
    \/ \E msg \in Messages : on_message(msg)
    \/ InterruptInLoop
    \/ InterruptElsewhere
    \/ AdvanceCursor
    \/ StopPublish
    \/ StopAcked

Spec == Init /\ [][Next]_vars

TypeOK ==
    /\ mainPc \in {"construct", "wait_connected", "subscribe", "start", "start_wait",
                   "idle", "except", "stop", "stop_wait", "exited"}
    /\ exitStatus \in {"running", "exit0", "exit255", "sigint"}
    /\ threadAlive \in BOOLEAN /\ connection_state \in BOOLEAN
    /\ last_lines \in 0..(MaxTasks + 9)
    /\ acked \in 0..2 /\ Len(calls) <= 3

\* ---------------------------------------------------------------- pure functions
\* The schedule periods the formatting is applied to
SchedInputs ==
    {m * Pow10(e) + d : m \in 0..MaxMant, e \in 0..MaxExp, d \in {0, 250, 500000}}

InitSched ==
    /\ InitSession
    /\ arg \in {[f |-> "sched", n |-> n] : n \in SchedInputs}
    /\ res = NoFn

ApplySchedString ==
    /\ arg.f = "sched" /\ res.f = "none"
    /\ res' = [f |-> "sched", val |-> SchedString(arg.n)]
    /\ UNCHANGED <<sessionVars, arg>>

SpecSched == InitSched /\ [][ApplySchedString]_vars

\* The (cpu, cpu_all) pairs the bar computation is applied to: every
\* percentage cpu*100/cpu_all in [0,100] with cpu_all <= MaxCpuAll
BarInputs ==
    {[f |-> "bar", cpu |-> c, cpu_all |-> a] : c \in 0..MaxCpuAll, a \in 1..MaxCpuAll}

InitBar ==
    /\ InitSession
    /\ arg \in {i \in BarInputs : i.cpu <= i.cpu_all}
    /\ res = NoFn

ApplyBar ==
    /\ arg.f = "bar" /\ res.f = "none"
    /\ res' = [f |-> "bar", val |-> Bar(arg.cpu, arg.cpu_all),
               r |-> SubIndex(arg.cpu, arg.cpu_all),
               exit2 |-> OutOfRange(SubIndex(arg.cpu, arg.cpu_all))]
    /\ UNCHANGED <<sessionVars, arg>>

SpecBar == InitBar /\ [][ApplyBar]_vars

\* The task records and cpu sums one iteration of the row loop is applied to:
\* counts from 0, cpu times from 0, and every sum the task's cpu time can be
\* part of, 0 included
RowInputs ==
    {[f |-> "row", tsk |-> << <<"A">>, 1, 1000, cnt, cpu, late >>, cpu_all |-> a] :
        cnt \in 0..MaxCnt, cpu \in 0..MaxCpuAll, late \in 0..MaxLate,
        a \in 0..MaxCpuAll}

InitRow ==
    /\ InitSession
    /\ arg \in {i \in RowInputs : i.tsk[5] <= i.cpu_all}
    /\ res = NoFn

NoRow == [k |-> "none"]

\* Lines 63-102: one iteration of the row loop
ApplyRow ==
    /\ arg.f = "row" /\ res.f = "none"
    /\ res' = [f |-> "row", err |-> RowErr(arg.tsk, arg.cpu_all),
               row |-> IF RowErr(arg.tsk, arg.cpu_all) = "none"
                       THEN Row(arg.tsk, arg.cpu_all) ELSE NoRow]
    /\ UNCHANGED <<sessionVars, arg>>

SpecRow == InitRow /\ [][ApplyRow]_vars

\* ---------------------------------------------------------------- claims
Kinds(lines) == {lines[i].k : i \in 1..Len(lines)}
FrameKinds == {"rule", "titles", "row", "mem", "cpu", "cursorup"}
Rows(lines) == {i \in 1..Len(lines) : lines[i].k = "row"}
IsSnapshot == lastMsg.enc = "json"

\* The payloads a printed line shows
ShownPayloads(line) == IF line.k = "raw" THEN {line.payload} ELSE {}

\* A snapshot that satisfies the documented schema
WellFormed(stat) ==
    /\ stat.hasTsks /\ stat.tsks = Len(stat.tdt)
    /\ \A i \in 1..Len(stat.tdt) : Len(stat.tdt[i]) = 6

\* C1: when the process has ended through the interrupt handler of the idle
\* loop, exactly one stop request with empty payload was published to the
\* control topic and the statistics topic was unsubscribed.
C1_StopAndUnsubscribe ==
    exitStatus = "exit0" =>
        /\ Cardinality({i \in 1..Len(calls) : calls[i] = StopCall}) = 1
        /\ \E i \in 1..Len(calls) :
               calls[i].op = "unsubscribe" /\ calls[i].topic = StatTopic

\* C2: a message whose first task record has a number of fields other than 6
\* is reported as incompatible and no header, row or footer line is printed.
C2_NoPartialFrame ==
    (IsSnapshot /\ Len(lastMsg.stat.tdt) > 0 /\ Len(lastMsg.stat.tdt[1]) # 6) =>
        /\ "incompat" \in Kinds(out)
        /\ Kinds(out) \cap FrameKinds = {}

\* C3: a well-formed snapshot with tsks = 0 and an empty tdt is rendered as a
\* frame with no task rows, and its line count is recorded.
C3_EmptySnapshotRendered ==
    (IsSnapshot /\ WellFormed(lastMsg.stat) /\ lastMsg.stat.tdt = <<>>
       /\ lastMsg.stat.apt > 0) =>
        /\ cbErr = "none"
        /\ out = Header \o <<RuleLine, MemLine(lastMsg.stat), CpuLine(lastMsg.stat, 0),
                             RuleLine, [k |-> "cursorup", n |-> 8]>>
        /\ last_lines = 8

\* C4: once a schema incompatibility has been detected the process has
\* terminated with a non-zero exit status.
C4_SchemaErrorFatal ==
    cbErr = "SystemExit(-1)" => exitStatus \notin {"running", "exit0"}

\* C5: subscribe and publish are only issued while the connected flag is set,
\* the start request is published after the subscribe, and the idle loop is
\* entered only once the start request has been published and acknowledged.
C5_SessionOrder ==
    /\ [][calls' # calls => connection_state]_vars
    /\ [](/\ Subscribed => connection_state
          /\ \A i \in 1..Len(calls) :
                 calls[i].op = "publish" => \E j \in 1..(i - 1) : calls[j] = SubscribeCall
          /\ mainPc = "start" => Subscribed
          /\ mainPc = "idle" =>
                 /\ \E i \in 1..Len(calls) : calls[i] = StartCall
                 /\ acked >= 1)

C5_Witness ==
    /\ mainPc = "idle" /\ connection_state /\ acked = 1
    /\ calls = <<SubscribeCall, StartCall>>

\* C6 as stated: the bar has exactly floor(p/10) full-block glyphs, followed
\* by at most one glyph that is a partial block.
C6_Original ==
    res.f = "bar" =>
        LET whole == (arg.cpu * 10) \div arg.cpu_all
            bar   == res.val
        IN  /\ Cardinality({i \in 1..Len(bar) : bar[i] = FullBlock}) = whole
            /\ Len(bar) <= whole + 1
            /\ \A i \in 1..Len(bar) : i <= whole <=> bar[i] = FullBlock

\* C6 amended: the bar is floor(p/10) full-block glyphs followed by at most one
\* glyph of the 8-glyph ramp.  With rem = p - 10*floor(p/10): below 80/9 the
\* extra glyph, if any, is a partial block; above 80/9 it is the ramp's first
\* glyph, another full block; at exactly 80/9 the rounding of the double
\* quotient decides between that full block and the 7/8 block.  The bar
\* length is monotonically non-decreasing in p.
C6_Bar ==
    res.f = "bar" =>
        LET whole == (arg.cpu * 10) \div arg.cpu_all
            bar   == res.val
            rem9  == (arg.cpu * 100 - whole * 10 * arg.cpu_all) * 9
            lim   == 80 * arg.cpu_all
            extra == Len(bar) = whole + 1
        IN  /\ Len(bar) \in {whole, whole + 1}
            /\ \A i \in 1..whole : bar[i] = FullBlock
            /\ \A i \in 1..Len(bar) : bar[i] \in 0..(BarsLen - 1)
            /\ rem9 < lim => (extra => bar[whole + 1] # FullBlock)
            /\ rem9 > lim => (extra /\ bar[whole + 1] = FullBlock)
            /\ rem9 = lim => (extra /\ bar[whole + 1] \in {FullBlock, bars[1]})
            /\ \A q \in BarInputs :
                   (q.cpu <= q.cpu_all /\ q.cpu * arg.cpu_all <= arg.cpu * q.cpu_all)
                       => Len(Bar(q.cpu, q.cpu_all)) <= Len(bar)

C6_Witness ==
    /\ res.f = "bar" /\ arg.cpu = 1 /\ arg.cpu_all = 11
    /\ res.val = <<FullBlock>>

\* C7: the schedule string is n/1,000,000 and " s" when n is divisible by
\* 1,000,000, else n/1,000 and "ms" when divisible by 1,000, else n and "us",
\* for every n >= 0.
C7_SchedByDivisibility ==
    res.f = "sched" =>
        res.val = IF arg.n % 1000000 = 0
                  THEN [digits |-> Digits(arg.n \div 1000000), unit |-> " s"]
                  ELSE IF arg.n % 1000 = 0
                       THEN [digits |-> Digits(arg.n \div 1000), unit |-> "ms"]
                       ELSE [digits |-> Digits(arg.n), unit |-> "us"]

\* C8: a well-formed snapshot whose cpu times sum to 0 is rendered without
\* error: one row per task, the closing rule line, and the line count recorded.
C8_ZeroCpuRendered ==
    (IsSnapshot /\ WellFormed(lastMsg.stat) /\ lastMsg.stat.tdt # <<>>
       /\ lastMsg.stat.apt > 0
       /\ SumCpu(lastMsg.stat.tdt, lastMsg.stat.tsks) = 0) =>
        /\ cbErr = "none"
        /\ Cardinality(Rows(out)) = lastMsg.stat.tsks
        /\ \A i \in Rows(out) : out[i].full => out[i].bar = <<>>
        /\ Len(out) > 1 /\ out[Len(out) - 1] = RuleLine
        /\ last_lines = lastMsg.stat.tsks + 8

\* C9: a snapshot with apt = 0 prints no overall-CPU figure and ends the
\* process.
C9_ZeroAppTimeFatal ==
    (IsSnapshot /\ WellFormed(lastMsg.stat) /\ lastMsg.stat.tdt # <<>>
       /\ lastMsg.stat.apt = 0 /\ SumCpu(lastMsg.stat.tdt, lastMsg.stat.tsks) > 0) =>
        /\ "cpu" \notin Kinds(out)
        /\ exitStatus # "running"

\* C10: an unparsable payload prints a diagnostic that includes the raw
\* payload and no frame line, and the session goes on.
C10_DecodeFailureDropped ==
    lastMsg.enc \in {"badutf8", "badjson"} =>
        /\ \E i \in 1..Len(out) : lastMsg \in ShownPayloads(out[i])
        /\ Kinds(out) \cap FrameKinds = {}
        /\ cbErr = "none"
        /\ (Running => threadAlive)

\* C11: a valid snapshot is printed in place: handling it moves the cursor up
\* by as many rows as its printed lines moved it down, so the next frame starts
\* at the row this one started at.
C11_FrameInPlace ==
    (IsSnapshot /\ WellFormed(lastMsg.stat) /\ lastMsg.stat.apt > 0) =>
        Displacement(out) = 0

\* C12: the interrupt handler moves the cursor down by the line count of the
\* last rendered frame, and once it has done so the callback prints no frame
\* line any more.
C12_TeardownKeepsFrame ==
    [][/\ (mainPc = "except" /\ mainPc' = "stop") => blanks' = last_lines
       /\ mainPc \in {"stop", "stop_wait"} =>
              \/ lastMsg' = lastMsg /\ out' = out
              \/ Kinds(out') \cap FrameKinds = {}]_vars

\* C13: a snapshot whose 'tsks' differs from the length of 'tdt', or any of
\* whose task records does not have exactly 6 fields, is reported as
\* incompatible and none of its task rows is printed.
C13_MalformedRejected ==
    (IsSnapshot /\ lastMsg.stat.hasTsks
       /\ (\/ lastMsg.stat.tsks # Len(lastMsg.stat.tdt)
           \/ \E i \in 1..Len(lastMsg.stat.tdt) : Len(lastMsg.stat.tdt[i]) # 6)) =>
        /\ "incompat" \in Kinds(out)
        /\ Rows(out) = {}

\* The lines of a frame that carry text: all but the cursor-up line
TextLines(lines) == {i \in 1..Len(lines) : lines[i].k # "cursorup"}

\* A snapshot was rendered to the end
Rendered == IsSnapshot /\ cbErr = "none" /\ "cursorup" \in Kinds(out)

\* C14 as stated: after a successful render the recorded line count equals the
\* number of text lines of the frame (header, rows, rule, memory line, CPU
\* line, closing rule).
C14_Original == Rendered => last_lines = Cardinality(TextLines(out))

\* C14: after a successful render with n task rows the recorded line count is
\* n + 8: the n + 7 text lines of the frame plus the line of the cursor-up
\* print, which is the number of rows the output moved the cursor down and the
\* amount the cursor-up escape moves it back.
C14_LineCount ==
    Rendered =>
        /\ Cardinality(Rows(out)) = lastMsg.stat.tsks
        /\ Cardinality(TextLines(out)) = lastMsg.stat.tsks + 7
        /\ last_lines = Cardinality(TextLines(out)) + 1
        /\ last_lines = Len(out)
        /\ out[Len(out)] = [k |-> "cursorup", n |-> last_lines]

C14_Witness ==
    Rendered /\ Cardinality(Rows(out)) = 2 /\ last_lines = 10

\* The fields of an abbreviated row: id, name, schedule and count
ShortRowFields == {"k", "full", "tid", "name", "sched", "cnt"}

\* C15: a printed task row shows percent, bar and the per-call values cpu/cnt
\* and late/cnt exactly when the task's count is positive; a task with count 0
\* always gets its row, with id, name, schedule and count only, and never
\* makes the row loop fail.
C15_RowByCount ==
    res.f = "row" =>
        /\ res.err = "none" =>
              /\ res.row.k = "row"
              /\ res.row.full <=> arg.tsk[4] > 0
              /\ res.row.cnt = arg.tsk[4]
              /\ res.row.full =>
                    /\ {"per", "bar"} \subseteq DOMAIN res.row
                    /\ res.row.cpu_call = <<arg.tsk[5], arg.tsk[4]>>
                    /\ res.row.late_call = <<arg.tsk[6], arg.tsk[4]>>
              /\ ~res.row.full => DOMAIN res.row = ShortRowFields
        /\ arg.tsk[4] = 0 => res.err = "none"

C15_Witness ==
    /\ res.f = "row" /\ res.err = "none"
    /\ arg.tsk[4] = 0 /\ arg.cpu_all = 0 /\ ~res.row.full

\* C16: the connected flag and the line count change only in steps of the
\* running delivery thread (on_connect, on_message); a step of the foreground
\* thread changes neither of them nor anything else the callbacks write, and
\* a step of the delivery thread changes nothing the foreground thread writes.
C16_SingleWriter ==
    [][/\ (connection_state' # connection_state \/ last_lines' # last_lines) =>
              threadAlive /\ mainPc' = mainPc
       /\ mainPc' # mainPc =>
              UNCHANGED <<connection_state, last_lines, lastMsg, out, cbErr, acked>>
       /\ mainPc' = mainPc => UNCHANGED <<exitStatus, calls, blanks>>]_vars

C16_Witness ==
    /\ mainPc = "stop" /\ connection_state
    /\ last_lines > 0 /\ blanks = last_lines

\* C17: for non-negative cpu times the sub-index r of a bar lies in 0..8, the
\* range test never leads to the exit with status -2, the glyph index 8 - r
\* used for r > 0 is an index of the 8-glyph ramp, and the bar has at most 10
\* glyphs.
C17_SubIndexInRange ==
    res.f = "bar" =>
        /\ res.r \in 0..8
        /\ ~res.exit2
        /\ res.r > 0 => (8 - res.r) \in DOMAIN bars
        /\ Len(res.val) <= 10

C17_Witness ==
    res.f = "bar" /\ res.r = 8 /\ ~res.exit2 /\ Len(res.val) = 9

\* C18: when the process has ended after the start request was published, a
\* stop request was published as well.
C18_StopAfterStart ==
    (exitStatus # "running" /\ \E i \in 1..Len(calls) : calls[i] = StartCall) =>
        \E j \in 1..Len(calls) : calls[j] = StopCall

====
